---- MODULE Spec2Model ----
(***************************************************************************)
(* ConfigurationSetApplyProcessor (winget-cli,                             *)
(* Microsoft.Management.Configuration): the apply engine as a state        *)
(* machine.  One behaviour is one call of Process() on one configuration   *)
(* set, with the external unit processor, and the caller's cancellation    *)
(* token, as the environment.                                              *)
(*                                                                         *)
(* Indices are 1-based here (the code's vectors are 0-based).  Strings     *)
(* that the code case-folds are sequences of one-letter strings.           *)
(***************************************************************************)
EXTENDS Integers, Sequences, FiniteSets, TLC

(***************************************************************************)
(* Bounds of the model.                                                    *)
(***************************************************************************)
\* Number of units in the configuration set.
NumUnits == 3
\* Total number of dependency strings declared in one configuration set.
MaxDependencies == 2
\* Number of units of one set that carry ShouldApply = false.
MaxManualSkips == 1

UnitIndex == 1..NumUnits

(***************************************************************************)
(* Result codes (hresults), by name.                                       *)
(***************************************************************************)
S_OK == "S_OK"
E_FAIL == "E_FAIL"
E_UNEXPECTED == "E_UNEXPECTED"
DuplicateIdentifier == "WINGET_CONFIG_ERROR_DUPLICATE_IDENTIFIER"
MissingDependency == "WINGET_CONFIG_ERROR_MISSING_DEPENDENCY"
DependencyCycle == "WINGET_CONFIG_ERROR_SET_DEPENDENCY_CYCLE"
AssertionFailed == "WINGET_CONFIG_ERROR_ASSERTION_FAILED"
DependencyUnsatisfied == "WINGET_CONFIG_ERROR_DEPENDENCY_UNSATISFIED"
SetApplyFailed == "WINGET_CONFIG_ERROR_SET_APPLY_FAILED"
ManuallySkipped == "WINGET_CONFIG_ERROR_MANUALLY_SKIPPED"
\* A failure code supplied by the external unit processor in a ResultInformation.
E_UNIT == "E_UNIT_PROCESSOR"
\* The hresult of an exception thrown by the external processor.
E_THROWN == "E_UNIT_EXCEPTION"
\* The hresult of the exception thrown by ThrowIfCancelled.
E_CANCELED == "ERROR_CANCELLED"

SUCCEEDED(code) == code = S_OK
FAILED(code) == ~SUCCEEDED(code)

(***************************************************************************)
(* Intents and the phase sequence of ProcessInternal.                      *)
(***************************************************************************)
\* Variant: the Assert phase marks the other intents like the Inform phase.
ErrorForOtherIntents_Uniform ==
    <<DependencyUnsatisfied, DependencyUnsatisfied, E_FAIL>>

\* Variant: the last call of ProcessInternal passes its two codes swapped.
ErrorForFailures_Swapped == <<AssertionFailed, DependencyUnsatisfied, E_FAIL>>

PhaseIntent == <<"Assert", "Inform", "Apply">>
ErrorForOtherIntents == <<AssertionFailed, DependencyUnsatisfied, E_FAIL>>
ErrorForFailures == <<AssertionFailed, DependencyUnsatisfied, SetApplyFailed>>
IntentSet == {PhaseIntent[p] : p \in DOMAIN PhaseIntent}

(***************************************************************************)
(* Identifiers and their normalization.                                    *)
(***************************************************************************)
FoldChar(c) ==
    CASE c = "A" -> "a"
      [] c = "B" -> "b"
      [] c = "C" -> "c"
      [] c = "D" -> "d"
      [] c = "X" -> "x"
      [] OTHER -> c

\* Variant: identifiers are compared as written.
GetNormalizedIdentifier_Raw(identifier) == identifier

GetNormalizedIdentifier(identifier) ==
    [k \in DOMAIN identifier |-> FoldChar(identifier[k])]

Empty == << >>

(***************************************************************************)
(* The input sets.  A unit is [id, intent, deps, shouldApply].  Two        *)
(* families of sets are drawn:                                             *)
(*  - ExecutionSets: distinct identifiers a, b, c..., any intents, any     *)
(*    ShouldApply, dependency lists over those identifiers;                *)
(*  - ValidationSets: identifiers and dependency strings that may be       *)
(*    empty, collide after case folding or name no unit; Inform units.     *)
(***************************************************************************)
Letters == <<"a", "b", "c", "d", "e">>
UnitName(i) == <<Letters[i]>>

RECURSIVE SumLen(_, _)
SumLen(f, n) == IF n = 0 THEN 0 ELSE Len(f[n]) + SumLen(f, n - 1)

SeqsUpTo(S, n) == UNION {[1..k -> S] : k \in 0..n}

\* Dependency lists of one set: at most MaxDependencies strings in total.
DependencyLists(strings) ==
    {d \in [UnitIndex -> SeqsUpTo(strings, MaxDependencies)] :
        SumLen(d, NumUnits) <= MaxDependencies}

ShouldApplyChoices ==
    {s \in [UnitIndex -> BOOLEAN] :
        Cardinality({i \in UnitIndex : ~s[i]}) <= MaxManualSkips}

ExecutionSets ==
    {[i \in UnitIndex |->
        [id |-> UnitName(i), intent |-> n[i], deps |-> d[i], shouldApply |-> s[i]]] :
        n \in [UnitIndex -> IntentSet],
        d \in DependencyLists({UnitName(i) : i \in UnitIndex}),
        s \in ShouldApplyChoices}

ValidationIds == {Empty, <<"a">>, <<"A">>, <<"b">>}
ValidationDeps == {Empty, <<"A">>, <<"b">>, <<"X">>}

ValidationSets ==
    {[i \in UnitIndex |->
        [id |-> n[i], intent |-> "Inform", deps |-> d[i], shouldApply |-> TRUE]] :
        n \in [UnitIndex -> ValidationIds],
        d \in DependencyLists(ValidationDeps)}

InputSets == ExecutionSets \cup ValidationSets

(***************************************************************************)
(* State.                                                                  *)
(***************************************************************************)
VARIABLES
    units,           \* m_configurationSet's units, in input order
    m_unitInfo,      \* per unit: code, details, state, processed, preprocessed, deps
    m_idToUnitInfoIndex, \* normalized identifier -> unit index
    resultCode,      \* m_result->ResultCode()
    events,          \* progress events handed to m_progress, in order
    calls,           \* calls made on the external set/unit processor, in order
    telemetry,       \* per-apply processing summaries logged
    cancelled,       \* the caller's cancellation token
    pc,              \* position of the thread running Process()
    phase,           \* index in PhaseIntent of the running ProcessIntentInternal
    unitsToProcess,  \* the candidate list of ProcessInternal
    current,         \* unit inside ProcessUnit, 0 when none
    hasFailure,      \* hasFailure of the running ProcessIntentInternal
    unitReturn,      \* history: what ProcessUnit returned per unit
    dryRunOrder,     \* history: the units in the order MarkPreprocessed took them
    testResult,      \* history: what TestSettings returned per unit
    sinkFailed,      \* history: some m_progress.Progress call has thrown
    sinkFaulty       \* the caller's progress sink is one that may throw

vars == <<units, m_unitInfo, m_idToUnitInfoIndex, resultCode, events, calls,
          telemetry, cancelled, pc, phase, unitsToProcess, current, hasFailure,
          unitReturn, dryRunOrder, testResult, sinkFailed, sinkFaulty>>

UnitInfo(unit) ==
    [code |-> S_OK, details |-> Empty, state |-> "Unknown",
     processed |-> FALSE, preprocessed |-> FALSE, deps |-> << >>,
     previouslyInDesiredState |-> FALSE]

\* The state after construction, for a sink that never throws (Init) and for
\* one that may throw at any call (SinkInit).
Constructed ==
    /\ units \in InputSets
    /\ m_unitInfo = [i \in UnitIndex |-> UnitInfo(units[i])]
    /\ m_idToUnitInfoIndex = << >>
    /\ resultCode = S_OK
    /\ events = << >>
    /\ calls = << >>
    /\ telemetry = << >>
    /\ cancelled = FALSE
    /\ pc = "PreProcess"
    /\ phase = 0
    /\ unitsToProcess = << >>
    /\ current = 0
    /\ hasFailure = FALSE
    /\ unitReturn = [i \in UnitIndex |-> "none"]
    /\ dryRunOrder = << >>
    /\ testResult = [i \in UnitIndex |-> "none"]
    /\ sinkFailed = FALSE

Init == Constructed /\ sinkFaulty = FALSE

SinkInit == Constructed /\ sinkFaulty = TRUE

(***************************************************************************)
(* Progress and result information.  A value p = [info, events, ok, ...]   *)
(* is the unit table, the events emitted so far, the running result flag.  *)
(* events holds every event handed to m_progress.Progress; p.fails is the  *)
(* set of the calls of Progress, counted within one step of the engine,    *)
(* that throw, and p.attempts counts the calls of the step.                *)
(***************************************************************************)
\* Most calls of m_progress.Progress that one step of the engine makes.
MaxEmissionsPerStep == NumUnits

\* The failure patterns of a step that makes up to n calls of Progress.
FailurePatterns(n) == IF sinkFaulty THEN SUBSET (1..n) ELSE {{}}
\* ConfigurationUnitResultInformation::Initialize(code, source)
Initialize(p, u, code) == [p EXCEPT !.info[u].code = code]

\* SendProgress(ConfigurationUnitState, unitInfo): sets Result->State, then emits.
\* Variant: Result->State is written after Progress returns, inside the try.
SendProgress_StateAfterEmit(p, state, u) ==
    LET thrown == (p.attempts + 1) \in p.fails
    IN  [p EXCEPT !.info[u].state = IF thrown THEN @ ELSE state,
                  !.events = Append(@, [unit |-> u, state |-> state]),
                  !.attempts = @ + 1,
                  !.failed = @ \/ thrown]

\* An exception of Progress is caught and logged by CATCH_LOG.
SendProgress(p, state, u) ==
    LET thrown == (p.attempts + 1) \in p.fails
    IN  [p EXCEPT !.info[u].state = state,
                  !.events = Append(@, [unit |-> u, state |-> state]),
                  !.attempts = @ + 1,
                  !.failed = @ \/ thrown]

\* Variant: the first holder of a duplicated identifier is notified each time.
SendProgressIfNotComplete_Always(p, state, u) == SendProgress(p, state, u)

SendProgressIfNotComplete(p, state, u) ==
    IF p.info[u].state # "Completed" THEN SendProgress(p, state, u) ELSE p

\* SendProgress(ConfigurationSetState): a set-level event carries unit 0.
SendSetProgress(evs, state) == Append(evs, [unit |-> 0, state |-> state])

(***************************************************************************)
(* PreProcess, first loop: the identifier index.                           *)
(***************************************************************************)
AddUnitToMap(p, i) ==
    LET originalIdentifier == units[i].id
        identifier == GetNormalizedIdentifier(originalIdentifier)
    IN  IF originalIdentifier = Empty
        THEN p
        ELSE IF identifier \in DOMAIN p.map
        THEN LET j == p.map[identifier]
                 p1 == SendProgressIfNotComplete(
                           Initialize(p, j, DuplicateIdentifier), "Completed", j)
                 p2 == SendProgress(
                           Initialize(p1, i, DuplicateIdentifier), "Completed", i)
             IN  [p2 EXCEPT !.ok = FALSE]
        ELSE [p EXCEPT !.map = (identifier :> i) @@ @]

RECURSIVE AddUnitsFrom(_, _)
AddUnitsFrom(p, i) ==
    IF i > NumUnits THEN p ELSE AddUnitsFrom(AddUnitToMap(p, i), i + 1)

(***************************************************************************)
(* PreProcess, second loop: dependency resolution.                         *)
(***************************************************************************)
RECURSIVE ResolveDependenciesFrom(_, _, _)
ResolveDependenciesFrom(p, u, k) ==
    IF k > Len(units[u].deps)
    THEN p
    ELSE LET dependencyHstring == units[u].deps[k]
             dependency == GetNormalizedIdentifier(dependencyHstring)
         IN  IF dependencyHstring = Empty
             THEN ResolveDependenciesFrom(p, u, k + 1)
             ELSE IF dependency \notin DOMAIN p.map
             THEN LET p1 == Initialize(p, u, MissingDependency)
                      p2 == [p1 EXCEPT !.info[u].details = dependencyHstring]
                      p3 == SendProgress(p2, "Completed", u)
                  IN  [p3 EXCEPT !.ok = FALSE]
             ELSE ResolveDependenciesFrom(
                      [p EXCEPT !.info[u].deps = Append(@, p.map[dependency])],
                      u, k + 1)

\* Variant: only the first unit's dependencies are resolved.
ResolveUnitsFrom_FirstOnly(p, u) == ResolveDependenciesFrom(p, u, 1)

RECURSIVE ResolveUnitsFrom(_, _)
ResolveUnitsFrom(p, u) ==
    IF u > NumUnits
    THEN p
    ELSE ResolveUnitsFrom(ResolveDependenciesFrom(p, u, 1), u + 1)

(***************************************************************************)
(* The phase scheduler: readiness, the scan, the classification.  dryRun   *)
(* selects the pair (HasPreprocessed, MarkPreprocessed, no progress) of    *)
(* PreProcess; otherwise (HasProcessedSuccessfully, ProcessUnit, progress).*)
(***************************************************************************)
HasPreprocessed(unitInfo) == unitInfo.preprocessed

\* Variant: the dependency check forgets the result code.
HasProcessedSuccessfully_ProcessedOnly(unitInfo) == unitInfo.processed

\* Variant: the dependency check forgets the processed flag.
HasProcessedSuccessfully_CodeOnly(unitInfo) == SUCCEEDED(unitInfo.code)

HasProcessedSuccessfully(unitInfo) ==
    unitInfo.processed /\ SUCCEEDED(unitInfo.code)

\* Variant: the real run checks dependencies like the dry run.
CheckDependency_Preprocessed(dryRun, unitInfo) == unitInfo.preprocessed

CheckDependency(dryRun, unitInfo) ==
    IF dryRun THEN HasPreprocessed(unitInfo) ELSE HasProcessedSuccessfully(unitInfo)

\* Variant: readiness forgets the intent of the phase.
HasIntentAndSatisfiedDependencies_AnyIntent(info, u, intent, dryRun) ==
    \A k \in DOMAIN info[u].deps : CheckDependency(dryRun, info[info[u].deps[k]])

\* Variant: after a failure in the phase no unit is ready any more.
HasIntentAndSatisfiedDependencies_UntilFailure(info, u, intent, dryRun) ==
    /\ ~hasFailure
    /\ units[u].intent = intent
    /\ \A k \in DOMAIN info[u].deps : CheckDependency(dryRun, info[info[u].deps[k]])

HasIntentAndSatisfiedDependencies(info, u, intent, dryRun) ==
    /\ units[u].intent = intent
    /\ \A k \in DOMAIN info[u].deps : CheckDependency(dryRun, info[info[u].deps[k]])

\* Positions of the candidate list whose unit is ready.
ReadyPositions(info, candidates, intent, dryRun) ==
    {k \in DOMAIN candidates :
        HasIntentAndSatisfiedDependencies(info, candidates[k], intent, dryRun)}

\* Variant: the scan takes the last ready position.
FirstReady_Last(info, candidates, intent, dryRun) ==
    LET ready == ReadyPositions(info, candidates, intent, dryRun)
    IN  CHOOSE k \in ready : \A j \in ready : k >= j

\* The scan takes the first ready position (the break at line 263).
FirstReady(info, candidates, intent, dryRun) ==
    LET ready == ReadyPositions(info, candidates, intent, dryRun)
    IN  CHOOSE k \in ready : \A j \in ready : k <= j

\* Variant: the scan erases the last candidate instead of the one it ran.
Erase_Last(candidates, k) == SubSeq(candidates, 1, Len(candidates) - 1)

\* Variant: the scan erases the first candidate instead of the one it ran.
Erase_First(candidates, k) == Tail(candidates)

\* Variant: the erase moves the head of the remainder to the back.
Erase_Rotate(candidates, k) ==
    LET rest == [j \in 1..(Len(candidates) - 1) |->
                    IF j < k THEN candidates[j] ELSE candidates[j + 1]]
    IN  IF rest = <<>> THEN rest ELSE Tail(rest) \o <<Head(rest)>>

\* unitsToProcess.erase(itr)
Erase(candidates, k) ==
    [j \in 1..(Len(candidates) - 1) |->
        IF j < k THEN candidates[j] ELSE candidates[j + 1]]

\* Variant: units of the intent left in the list go unnoticed.
HasRemainingDependencies_Never(candidates, intent) == FALSE

HasRemainingDependencies(candidates, intent) ==
    \E k \in DOMAIN candidates : units[candidates[k]].intent = intent

\* Variant: the marking loops set the code and emit nothing.
MarkSkipped_NoProgress(p, u, code, sendProgress) == Initialize(p, u, code)

\* Variant: the marking loops report the units as Completed.
MarkSkipped_Completed(p, u, code, sendProgress) ==
    IF sendProgress
    THEN SendProgress(Initialize(p, u, code), "Completed", u)
    ELSE Initialize(p, u, code)

\* Variant: the marking loops send Skipped whatever sendProgress says.
MarkSkipped_AlwaysProgress(p, u, code, sendProgress) ==
    SendProgress(Initialize(p, u, code), "Skipped", u)

MarkSkipped(p, u, code, sendProgress) ==
    IF sendProgress
    THEN SendProgress(Initialize(p, u, code), "Skipped", u)
    ELSE Initialize(p, u, code)

\* The two marking loops after the scan loop (lines 268-298), over the
\* candidates from position k on; sameIntent selects the loop.
RECURSIVE MarkRemaining(_, _, _, _, _, _, _)
MarkRemaining(p, candidates, k, intent, sameIntent, code, sendProgress) ==
    IF k > Len(candidates)
    THEN p
    ELSE LET u == candidates[k]
             hit == (units[u].intent = intent) = sameIntent
         IN  MarkRemaining(
                 IF hit THEN MarkSkipped(p, u, code, sendProgress) ELSE p,
                 candidates, k + 1, intent, sameIntent, code, sendProgress)

\* Variant: a failing phase marks the units and reports success.
Classify_NotFatal(p, candidates, ph, failure, sendProgress) ==
    LET intent == PhaseIntent[ph]
        p1 == MarkRemaining(p, candidates, 1, intent, TRUE,
                            DependencyUnsatisfied, sendProgress)
    IN  IF failure \/ HasRemainingDependencies(candidates, intent)
        THEN MarkRemaining(p1, candidates, 1, intent, FALSE,
                           ErrorForOtherIntents[ph], sendProgress)
        ELSE p1

\* ProcessIntentInternal after its scan loop: p.ok is its return value and
\* p.code the set ResultCode.
Classify(p, candidates, ph, failure, sendProgress) ==
    LET intent == PhaseIntent[ph]
        remaining == HasRemainingDependencies(candidates, intent)
        p1 == MarkRemaining(p, candidates, 1, intent, TRUE,
                            DependencyUnsatisfied, sendProgress)
        p2 == MarkRemaining(p1, candidates, 1, intent, FALSE,
                            ErrorForOtherIntents[ph], sendProgress)
    IN  IF failure \/ remaining
        THEN [p2 EXCEPT !.ok = FALSE,
                        !.code = IF failure THEN ErrorForFailures[ph]
                                 ELSE DependencyUnsatisfied]
        ELSE p1

(***************************************************************************)
(* The dry run of PreProcess: ProcessInternal(HasPreprocessed,             *)
(* MarkPreprocessed), sendProgress = false.                                *)
(***************************************************************************)
\* Variant: the dry run marks the unit as processed too.
MarkPreprocessed_AsProcessed(p, u) ==
    [p EXCEPT !.info[u].preprocessed = TRUE, !.info[u].processed = TRUE,
              !.order = Append(@, u)]

\* p.order records the calls of MarkPreprocessed, for dryRunOrder.
MarkPreprocessed(p, u) ==
    [p EXCEPT !.info[u].preprocessed = TRUE, !.order = Append(@, u)]

RECURSIVE DryRunScan(_, _, _)
DryRunScan(p, candidates, intent) ==
    IF ReadyPositions(p.info, candidates, intent, TRUE) = {}
    THEN [p |-> p, candidates |-> candidates]
    ELSE LET k == FirstReady(p.info, candidates, intent, TRUE)
         IN  DryRunScan(MarkPreprocessed(p, candidates[k]), Erase(candidates, k), intent)

RECURSIVE DryRunFrom(_, _, _)
DryRunFrom(p, candidates, ph) ==
    LET r == DryRunScan(p, candidates, PhaseIntent[ph])
        c == Classify(r.p, r.candidates, ph, FALSE, FALSE)
    IN  IF ~c.ok \/ ph = Len(PhaseIntent)
        THEN c
        ELSE DryRunFrom(c, r.candidates, ph + 1)

AllUnits == [i \in UnitIndex |-> i]

\* The engine's mutable tables, as one value for the operators above.
Engine ==
    [info |-> m_unitInfo, events |-> events, map |-> m_idToUnitInfoIndex,
     ok |-> TRUE, code |-> resultCode, order |-> dryRunOrder,
     fails |-> {}, attempts |-> 0, failed |-> sinkFailed]

\* The engine's tables in a step during which the calls in fails throw.
EngineWith(fails) == [Engine EXCEPT !.fails = fails]

(***************************************************************************)
(* The external unit processor: what its calls may return.                 *)
(***************************************************************************)
ProcessorCodes == {S_OK, E_UNIT}

TestOutcomes ==
    {[thrown |-> FALSE, test |-> t, code |-> c] :
        t \in {"Positive", "Negative", "Failed", "Unknown"}, c \in ProcessorCodes}
    \cup {[thrown |-> TRUE, test |-> "Unknown", code |-> E_THROWN]}

ResultOutcomes ==
    {[thrown |-> FALSE, test |-> "Unknown", code |-> c] : c \in ProcessorCodes}
    \cup {[thrown |-> TRUE, test |-> "Unknown", code |-> E_THROWN]}

\* ExtractUnitResultInformation(std::current_exception(), ResultInformation)
ExtractUnitResultInformation(p, u, hresult) == Initialize(p, u, hresult)

\* case ConfigurationUnitIntent::Assert (lines 395-417)
AssertOutcome(p, u, r) ==
    IF r.thrown
    THEN [p |-> ExtractUnitResultInformation(p, u, r.code), result |-> FALSE]
    ELSE IF r.test = "Positive"
    THEN [p |-> p, result |-> TRUE]
    ELSE IF r.test = "Negative"
    THEN [p |-> Initialize(p, u, AssertionFailed), result |-> FALSE]
    ELSE IF r.test = "Failed"
    THEN [p |-> Initialize(p, u, r.code), result |-> FALSE]
    ELSE [p |-> Initialize(p, u, E_UNEXPECTED), result |-> FALSE]

\* Variant: a GetSettings failure code still counts as a successful unit.
InformOutcome_AlwaysTrue(p, u, r) ==
    IF r.thrown
    THEN [p |-> ExtractUnitResultInformation(p, u, r.code), result |-> FALSE]
    ELSE IF SUCCEEDED(r.code)
    THEN [p |-> p, result |-> TRUE]
    ELSE [p |-> Initialize(p, u, r.code), result |-> TRUE]

\* case ConfigurationUnitIntent::Inform (lines 419-433)
InformOutcome(p, u, r) ==
    IF r.thrown
    THEN [p |-> ExtractUnitResultInformation(p, u, r.code), result |-> FALSE]
    ELSE IF SUCCEEDED(r.code)
    THEN [p |-> p, result |-> TRUE]
    ELSE [p |-> Initialize(p, u, r.code), result |-> FALSE]

\* Variant: a Positive test of an Apply unit leaves the result untouched.
ApplyTestOutcome_NoFlag(p, u, r) ==
    IF r.thrown
    THEN [p |-> ExtractUnitResultInformation(p, u, r.code), result |-> FALSE]
    ELSE IF r.test = "Positive"
    THEN [p |-> p, result |-> TRUE]
    ELSE IF r.test = "Failed"
    THEN [p |-> Initialize(p, u, r.code), result |-> FALSE]
    ELSE [p |-> Initialize(p, u, E_UNEXPECTED), result |-> FALSE]

\* case ConfigurationUnitIntent::Apply, every TestResult but Negative
ApplyTestOutcome(p, u, r) ==
    IF r.thrown
    THEN [p |-> ExtractUnitResultInformation(p, u, r.code), result |-> FALSE]
    ELSE IF r.test = "Positive"
    THEN [p |-> [p EXCEPT !.info[u].previouslyInDesiredState = TRUE],
          result |-> TRUE]
    ELSE IF r.test = "Failed"
    THEN [p |-> Initialize(p, u, r.code), result |-> FALSE]
    ELSE [p |-> Initialize(p, u, E_UNEXPECTED), result |-> FALSE]

\* case ConfigurationUnitIntent::Apply, after ApplySettings (lines 451-460)
ApplySettingsOutcome(p, u, r) ==
    IF r.thrown
    THEN [p |-> ExtractUnitResultInformation(p, u, r.code), result |-> FALSE]
    ELSE IF SUCCEEDED(r.code)
    THEN [p |-> p, result |-> TRUE]
    ELSE [p |-> Initialize(p, u, r.code), result |-> FALSE]

Call(op, u) == [op |-> op, unit |-> u]

\* What a TestSettings call handed back: its TestResult, or an exception.
TestResult(r) == IF r.thrown THEN "Thrown" ELSE r.test

(***************************************************************************)
(* GetProcessingSummaryFor and the per-apply telemetry.                    *)
(***************************************************************************)
\* Variant: every unit with a failure code counts as failed.
GetProcessingSummaryFor_AnyFailure(intent) ==
    LET ofIntent == {i \in UnitIndex : units[i].intent = intent}
    IN  [intent |-> intent,
         count |-> Cardinality(ofIntent),
         run |-> Cardinality({i \in ofIntent : m_unitInfo[i].processed}),
         failed |-> Cardinality({i \in ofIntent : FAILED(m_unitInfo[i].code)})]

GetProcessingSummaryFor(intent) ==
    LET ofIntent == {i \in UnitIndex : units[i].intent = intent}
        run == {i \in ofIntent : m_unitInfo[i].processed}
    IN  [intent |-> intent,
         count |-> Cardinality(ofIntent),
         run |-> Cardinality(run),
         failed |-> Cardinality({i \in run : FAILED(m_unitInfo[i].code)})]

Summaries == [p \in DOMAIN PhaseIntent |-> GetProcessingSummaryFor(PhaseIntent[p])]

(***************************************************************************)
(* The caller raises the cancellation token, at any moment of the call.    *)
(***************************************************************************)
Cancel ==
    /\ pc \notin {"Done", "Thrown"}
    /\ ~cancelled
    /\ cancelled' = TRUE
    /\ UNCHANGED <<units, sinkFaulty, dryRunOrder, testResult, sinkFailed, m_unitInfo,
                   m_idToUnitInfoIndex, resultCode, events, calls, telemetry, pc,
                   phase, unitsToProcess, current, hasFailure, unitReturn>>

(***************************************************************************)
(* PreProcess, in its three parts.  A failing part leaves Process at the   *)
(* set-level Completed event ("Finish").                                   *)
(***************************************************************************)
PreProcessAddUnits ==
    /\ pc = "PreProcess"
    /\ \E fails \in FailurePatterns(MaxEmissionsPerStep) :
       LET p == AddUnitsFrom(EngineWith(fails), 1)
       IN  /\ m_unitInfo' = p.info
           /\ sinkFailed' = p.failed
           /\ events' = p.events
           /\ m_idToUnitInfoIndex' = p.map
           /\ resultCode' = IF p.ok THEN resultCode ELSE DuplicateIdentifier
           /\ pc' = IF p.ok THEN "Resolve" ELSE "Finish"
    /\ UNCHANGED <<units, sinkFaulty, dryRunOrder, testResult, calls, telemetry, cancelled, phase, unitsToProcess,
                   current, hasFailure, unitReturn>>

PreProcessResolve ==
    /\ pc = "Resolve"
    /\ \E fails \in FailurePatterns(MaxEmissionsPerStep) :
       LET p == ResolveUnitsFrom(EngineWith(fails), 1)
       IN  /\ m_unitInfo' = p.info
           /\ sinkFailed' = p.failed
           /\ events' = p.events
           /\ resultCode' = IF p.ok THEN resultCode ELSE MissingDependency
           /\ pc' = IF p.ok THEN "CycleCheck" ELSE "Finish"
    /\ UNCHANGED <<units, sinkFaulty, dryRunOrder, testResult, m_idToUnitInfoIndex, calls, telemetry, cancelled, phase,
                   unitsToProcess, current, hasFailure, unitReturn>>

PreProcessCycleCheck ==
    /\ pc = "CycleCheck"
    /\ LET p == DryRunFrom(Engine, AllUnits, 1)
       IN  /\ m_unitInfo' = p.info
           /\ sinkFailed' = p.failed
           /\ events' = p.events
           /\ resultCode' = IF p.ok THEN p.code ELSE DependencyCycle
           /\ pc' = IF p.ok THEN "Start" ELSE "Finish"
           /\ dryRunOrder' = p.order
    /\ UNCHANGED <<units, sinkFaulty, testResult, m_idToUnitInfoIndex, calls, telemetry,
                   cancelled, phase, unitsToProcess, current, hasFailure, unitReturn>>

(***************************************************************************)
(* Process after a successful PreProcess: the set-level InProgress event,  *)
(* then ProcessInternal(HasProcessedSuccessfully, ProcessUnit, true).      *)
(***************************************************************************)
ProcessStart ==
    /\ pc = "Start"
    /\ events' = SendSetProgress(events, "InProgress")
    /\ \E fails \in FailurePatterns(1) : sinkFailed' = (sinkFailed \/ 1 \in fails)
    /\ unitsToProcess' = AllUnits
    /\ phase' = 1
    /\ hasFailure' = FALSE
    /\ pc' = "Scan"
    /\ UNCHANGED <<units, sinkFaulty, dryRunOrder, testResult, m_unitInfo, m_idToUnitInfoIndex, resultCode, calls,
                   telemetry, cancelled, current, unitReturn>>

\* The scan of ProcessIntentInternal finds a ready unit and calls ProcessUnit.
ScanSelect ==
    /\ pc = "Scan"
    /\ ReadyPositions(m_unitInfo, unitsToProcess, PhaseIntent[phase], FALSE) # {}
    /\ current' = unitsToProcess[
                      FirstReady(m_unitInfo, unitsToProcess, PhaseIntent[phase], FALSE)]
    /\ pc' = "Enter"
    /\ UNCHANGED <<units, sinkFaulty, dryRunOrder, testResult,
                   sinkFailed, m_unitInfo, m_idToUnitInfoIndex, resultCode, events,
                   calls, telemetry, cancelled, phase, unitsToProcess, hasFailure,
                   unitReturn>>

\* A full scan finds no ready unit: the classification, then the next phase
\* of ProcessInternal or its return.
PhaseClassify ==
    /\ pc = "Scan"
    /\ ReadyPositions(m_unitInfo, unitsToProcess, PhaseIntent[phase], FALSE) = {}
    /\ \E fails \in FailurePatterns(MaxEmissionsPerStep) :
       LET p == Classify(EngineWith(fails), unitsToProcess, phase, hasFailure, TRUE)
           last == ~p.ok \/ phase = Len(PhaseIntent)
       IN  /\ m_unitInfo' = p.info
           /\ sinkFailed' = p.failed
           /\ events' = p.events
           /\ resultCode' = p.code
           /\ pc' = IF last THEN "Finish" ELSE "Scan"
           /\ phase' = IF last THEN phase ELSE phase + 1
    /\ hasFailure' = FALSE
    /\ UNCHANGED <<units, sinkFaulty, dryRunOrder, testResult, m_idToUnitInfoIndex, calls, telemetry, cancelled,
                   unitsToProcess, current, unitReturn>>

(***************************************************************************)
(* ProcessUnit, cut at its cancellation polls and external calls.          *)
(***************************************************************************)
\* Variant: ProcessUnit does not poll the token on entry.
PollOnEntry_Never == FALSE

\* m_progress.ThrowIfCancelled() at the three places of ProcessUnit: the
\* poll throws when the token is set.
PollOnEntry == cancelled
PollAfterCreate == cancelled
PollBeforeApply == cancelled

\* Variant: the scan loop leaves the unit it ran in the candidate list.
ReturnToScan_NoErase(p, result) ==
    /\ m_unitInfo' = p.info
    /\ events' = p.events
    /\ sinkFailed' = p.failed
    /\ hasFailure' = (hasFailure \/ ~result)
    /\ unitsToProcess' = unitsToProcess
    /\ unitReturn' = [unitReturn EXCEPT ![current] = IF result THEN "true" ELSE "false"]
    /\ current' = 0
    /\ pc' = "Scan"

\* ProcessUnit returns result to the scan loop, which records a failure and
\* erases the unit from the candidate list (lines 257-263).
ReturnToScan(p, result) ==
    /\ m_unitInfo' = p.info
    /\ events' = p.events
    /\ sinkFailed' = p.failed
    /\ hasFailure' = (hasFailure \/ ~result)
    /\ unitsToProcess' =
           Erase(unitsToProcess,
                 CHOOSE k \in DOMAIN unitsToProcess : unitsToProcess[k] = current)
    /\ unitReturn' = [unitReturn EXCEPT ![current] = IF result THEN "true" ELSE "false"]
    /\ current' = 0
    /\ pc' = "Scan"

\* Variant: the exception unwinds ProcessUnit without its scope-exit emission.
Escape_Unwound(p) ==
    /\ m_unitInfo' = m_unitInfo
    /\ events' = events
    /\ sinkFailed' = sinkFailed
    /\ current' = 0
    /\ pc' = "Catch"
    /\ UNCHANGED <<hasFailure, unitsToProcess, unitReturn>>

\* The cancellation exception leaves ProcessUnit, the scan loop and
\* ProcessInternal for the catch block of Process.
Escape(p) ==
    /\ m_unitInfo' = p.info
    /\ events' = p.events
    /\ sinkFailed' = p.failed
    /\ current' = 0
    /\ pc' = "Catch"
    /\ UNCHANGED <<hasFailure, unitsToProcess, unitReturn>>

\* Variant: the processed flag is never set.
MarkProcessed_Never(p, u) == p

\* Line 360: unitInfo.Processed = true
MarkProcessed(p, u) == [p EXCEPT !.info[u].processed = TRUE]

\* Lines 355-372: first poll, the processed flag, the manual skip, InProgress.
UnitEnter ==
    /\ pc = "Enter"
    /\ IF PollOnEntry
       THEN Escape(Engine)
       ELSE \E fails \in FailurePatterns(1) :
            LET p == MarkProcessed(EngineWith(fails), current)
            IN  IF ~units[current].shouldApply
                THEN ReturnToScan(
                         SendProgress(Initialize(p, current, ManuallySkipped),
                                      "Skipped", current),
                         TRUE)
                ELSE /\ m_unitInfo' = SendProgress(p, "InProgress", current).info
                     /\ events' = SendProgress(p, "InProgress", current).events
                     /\ sinkFailed' = SendProgress(p, "InProgress", current).failed
                     /\ pc' = "Create"
                     /\ UNCHANGED <<hasFailure, unitsToProcess, unitReturn, current>>
    /\ UNCHANGED <<units, sinkFaulty, dryRunOrder, testResult, m_idToUnitInfoIndex, resultCode, calls, telemetry,
                   cancelled, phase>>

\* Lines 375-383: CreateUnitProcessor returns or throws.
UnitCreate ==
    /\ pc = "Create"
    /\ calls' = Append(calls, Call("CreateUnitProcessor", current))
    /\ \E created \in BOOLEAN :
          IF created
          THEN /\ pc' = "Dispatch"
               /\ UNCHANGED <<m_unitInfo, events, hasFailure, unitsToProcess,
                              unitReturn, current, sinkFailed>>
          ELSE \E fails \in FailurePatterns(1) :
               ReturnToScan(
                   SendProgress(
                       ExtractUnitResultInformation(EngineWith(fails), current, E_THROWN),
                       "Completed", current),
                   FALSE)
    /\ UNCHANGED <<units, sinkFaulty, dryRunOrder, testResult, m_idToUnitInfoIndex, resultCode, telemetry, cancelled, phase>>

\* Lines 386-484 up to the poll before ApplySettings: second poll, then
\* TestSettings or GetSettings by intent.
UnitDispatch ==
    /\ pc = "Dispatch"
    /\ \E fails \in FailurePatterns(1) :
       IF PollAfterCreate
       THEN /\ Escape(SendProgress(EngineWith(fails), "Completed", current))
            /\ UNCHANGED <<calls, testResult>>
       ELSE IF units[current].intent = "Assert"
       THEN /\ calls' = Append(calls, Call("TestSettings", current))
            /\ \E r \in TestOutcomes :
                  LET o == AssertOutcome(EngineWith(fails), current, r)
                  IN  /\ testResult' = [testResult EXCEPT ![current] = TestResult(r)]
                      /\ ReturnToScan(SendProgress(o.p, "Completed", current), o.result)
       ELSE IF units[current].intent = "Inform"
       THEN /\ calls' = Append(calls, Call("GetSettings", current))
            /\ UNCHANGED testResult
            /\ \E r \in ResultOutcomes :
                  LET o == InformOutcome(EngineWith(fails), current, r)
                  IN  ReturnToScan(SendProgress(o.p, "Completed", current), o.result)
       ELSE /\ calls' = Append(calls, Call("TestSettings", current))
            /\ \E r \in TestOutcomes :
                  /\ testResult' = [testResult EXCEPT ![current] = TestResult(r)]
                  /\ IF ~r.thrown /\ r.test = "Negative"
                     THEN /\ pc' = "Apply"
                          /\ UNCHANGED <<m_unitInfo, events, hasFailure, unitsToProcess,
                                         unitReturn, current, sinkFailed>>
                     ELSE LET o == ApplyTestOutcome(EngineWith(fails), current, r)
                          IN  ReturnToScan(SendProgress(o.p, "Completed", current),
                                           o.result)
    /\ UNCHANGED <<units, sinkFaulty, dryRunOrder, m_idToUnitInfoIndex, resultCode, telemetry,
                   cancelled, phase>>

\* Lines 447-460: the third poll sits inside the try block of line 391, so
\* its exception is caught by the catch (...) of line 478; else ApplySettings.
UnitApply ==
    /\ pc = "Apply"
    /\ \E fails \in FailurePatterns(1) :
       IF PollBeforeApply
       THEN /\ ReturnToScan(
                   SendProgress(
                       ExtractUnitResultInformation(EngineWith(fails), current, E_CANCELED),
                       "Completed", current),
                   FALSE)
            /\ UNCHANGED calls
       ELSE /\ calls' = Append(calls, Call("ApplySettings", current))
            /\ \E r \in ResultOutcomes :
                  LET o == ApplySettingsOutcome(EngineWith(fails), current, r)
                  IN  ReturnToScan(SendProgress(o.p, "Completed", current), o.result)
    /\ UNCHANGED <<units, sinkFaulty, dryRunOrder, testResult, m_idToUnitInfoIndex, resultCode,
                   telemetry, cancelled, phase>>

(***************************************************************************)
(* The two ends of Process.                                                *)
(***************************************************************************)
\* Line 63: the set-level Completed event.
ProcessFinish ==
    /\ pc = "Finish"
    /\ events' = SendSetProgress(events, "Completed")
    /\ \E fails \in FailurePatterns(1) : sinkFailed' = (sinkFailed \/ 1 \in fails)
    /\ pc' = "Summary"
    /\ UNCHANGED <<units, sinkFaulty, dryRunOrder, testResult, m_unitInfo, m_idToUnitInfoIndex,
                   resultCode, calls, telemetry, cancelled, phase, unitsToProcess,
                   current, hasFailure, unitReturn>>

\* Line 65: the per-apply summary, then the normal return.
ProcessSummary ==
    /\ pc = "Summary"
    /\ telemetry' = Append(telemetry,
                           [hresult |-> resultCode, source |-> "ForApply",
                            summaries |-> Summaries])
    /\ pc' = "Done"
    /\ UNCHANGED <<units, sinkFaulty, dryRunOrder, testResult,
                   sinkFailed, m_unitInfo, m_idToUnitInfoIndex,
                   resultCode, events, calls, cancelled, phase, unitsToProcess,
                   current, hasFailure, unitReturn>>

\* Variant: the catch block rethrows without logging.
ProcessCatch_Silent ==
    /\ pc = "Catch"
    /\ pc' = "Thrown"
    /\ UNCHANGED <<units, sinkFaulty, dryRunOrder, testResult,
                   sinkFailed, m_unitInfo, m_idToUnitInfoIndex,
                   resultCode, events, calls, telemetry, cancelled, phase,
                   unitsToProcess, current, hasFailure, unitReturn>>

\* Lines 67-80: catch (...), the summary with source Internal, rethrow.
ProcessCatch ==
    /\ pc = "Catch"
    /\ telemetry' = Append(telemetry,
                           [hresult |-> E_CANCELED, source |-> "Internal",
                            summaries |-> Summaries])
    /\ pc' = "Thrown"
    /\ UNCHANGED <<units, sinkFaulty, dryRunOrder, testResult,
                   sinkFailed, m_unitInfo, m_idToUnitInfoIndex, resultCode, events,
                   calls, cancelled, phase, unitsToProcess, current, hasFailure,
                   unitReturn>>

Next ==
    \/ Cancel
    \/ PreProcessAddUnits
    \/ PreProcessResolve
    \/ PreProcessCycleCheck
    \/ ProcessStart
    \/ ScanSelect
    \/ PhaseClassify
    \/ UnitEnter
    \/ UnitCreate
    \/ UnitDispatch
    \/ UnitApply
    \/ ProcessFinish
    \/ ProcessSummary
    \/ ProcessCatch

Spec == Init /\ [][Next]_vars

\* The same engine with a progress sink that may throw.
SinkSpec == SinkInit /\ [][Next]_vars

\* Process runs on one thread and every external call returns or throws, so
\* a step of Process that stays enabled is eventually taken; the caller may
\* or may not raise the cancellation token.
PreProcessSteps ==
    \/ PreProcessAddUnits
    \/ PreProcessResolve
    \/ PreProcessCycleCheck

ProcessSteps ==
    \/ ProcessStart
    \/ ScanSelect
    \/ PhaseClassify
    \/ UnitEnter
    \/ UnitCreate
    \/ UnitDispatch
    \/ UnitApply
    \/ ProcessFinish
    \/ ProcessSummary
    \/ ProcessCatch

InPreProcess == pc \in {"PreProcess", "Resolve", "CycleCheck"}

\* Weak fairness of PreProcessSteps. PreProcess is straight-line code whose
\* three parts have no guard but the position, so ENABLED <<PreProcessSteps>>_vars
\* is InPreProcess and WF_vars(PreProcessSteps) is written with it.
PreProcessFairness ==
    []<>(~InPreProcess) \/ []<><<PreProcessSteps>>_vars

LiveSpec ==
    Init /\ [][Next]_vars /\ PreProcessFairness /\ WF_vars(ProcessSteps)

(***************************************************************************)
(* Properties.                                                             *)
(***************************************************************************)
EventPositions(u, state) ==
    {k \in DOMAIN events : events[k].unit = u /\ events[k].state = state}

\* Some event (u, state) was emitted before position k.
EmittedBefore(u, state, k) == \E j \in EventPositions(u, state) : j < k

ReturnedNormally == pc = "Done"
SuccessfulApply == pc = "Done" /\ resultCode = S_OK
UnitsOfIntent(intent) == {u \in UnitIndex : units[u].intent = intent}

\* C1: in an apply that ends with set ResultCode = success, for units A and B
\* with B's index in A's dependency_indices, B's Completed event is emitted
\* before A's InProgress event.
C1_DependencyOrder ==
    SuccessfulApply =>
        \A a \in UnitIndex : \A k \in DOMAIN m_unitInfo[a].deps :
            \A i \in EventPositions(a, "InProgress") :
                EmittedBefore(m_unitInfo[a].deps[k], "Completed", i)

C1_Witness ==
    /\ SuccessfulApply
    /\ \E a \in UnitIndex :
          /\ m_unitInfo[a].deps # << >>
          /\ EventPositions(a, "InProgress") # {}

\* C2 as stated: in an apply that ends with success, every Assert unit has
\* reached Completed before any Inform unit emits InProgress, and every Inform
\* unit has reached Completed before any Apply unit emits InProgress.
CompletedBeforeInProgress(earlier, later) ==
    \A x \in UnitsOfIntent(earlier), y \in UnitsOfIntent(later) :
        \A i \in EventPositions(y, "InProgress") : EmittedBefore(x, "Completed", i)

C2_Original ==
    SuccessfulApply =>
        /\ CompletedBeforeInProgress("Assert", "Inform")
        /\ CompletedBeforeInProgress("Inform", "Apply")

\* C2 amended: in an apply that ends with success, before any Inform unit
\* emits InProgress every Assert unit has emitted its terminal event, which is
\* Completed for a unit with ShouldApply = true and Skipped for a unit with
\* ShouldApply = false; the same holds between Inform and Apply units.
TerminalBeforeInProgress(earlier, later) ==
    \A x \in UnitsOfIntent(earlier), y \in UnitsOfIntent(later) :
        \A i \in EventPositions(y, "InProgress") :
            EmittedBefore(x, IF units[x].shouldApply THEN "Completed" ELSE "Skipped", i)

C2_IntentOrder ==
    SuccessfulApply =>
        /\ TerminalBeforeInProgress("Assert", "Inform")
        /\ TerminalBeforeInProgress("Inform", "Apply")

C2_Witness ==
    /\ SuccessfulApply
    /\ \E x \in UnitsOfIntent("Assert"), y \in UnitsOfIntent("Inform"),
          z \in UnitsOfIntent("Apply") :
          /\ y < x
          /\ ~units[x].shouldApply
          /\ EventPositions(y, "InProgress") # {}
          /\ EventPositions(z, "InProgress") # {}

\* C3 as stated: when Process has emitted the set-level Completed event, every
\* unit is in state Completed or Skipped, also after a failed PreProcess.
C3_Original ==
    ReturnedNormally =>
        \A u \in UnitIndex : m_unitInfo[u].state \in {"Completed", "Skipped"}

\* C3 amended: when Process has emitted the set-level Completed event after a
\* PreProcess that succeeded, every unit is in state Completed or Skipped;
\* after a PreProcess that failed, the units marked DuplicateIdentifier or
\* MissingDependency are Completed and every other unit is still Unknown.
PreProcessFailed == pc \in {"Finish", "Summary", "Done"} /\ phase = 0

C3_TerminalStates ==
    ReturnedNormally =>
        \A u \in UnitIndex :
            IF PreProcessFailed
            THEN m_unitInfo[u].state =
                     IF m_unitInfo[u].code \in {DuplicateIdentifier, MissingDependency}
                     THEN "Completed" ELSE "Unknown"
            ELSE m_unitInfo[u].state \in {"Completed", "Skipped"}

C3_Witness ==
    /\ ReturnedNormally
    /\ ~PreProcessFailed
    /\ \E u, v \in UnitIndex :
          /\ m_unitInfo[u].state = "Completed"
          /\ m_unitInfo[v].state = "Skipped"
          /\ ~m_unitInfo[v].processed

\* C4 as stated: when a poll of ProcessUnit (on entry, after
\* CreateUnitProcessor, before ApplySettings) finds the token set, the
\* cancellation escapes to the catch block of Process: no further unit is
\* started and the set-level Completed event is not emitted.
AtPoll == pc \in {"Enter", "Dispatch", "Apply"}

NewCallsOn(u, ops) ==
    {k \in DOMAIN calls' : k > Len(calls) /\ calls'[k].unit = u /\ calls'[k].op \in ops}

ExternalOps == {"CreateUnitProcessor", "TestSettings", "GetSettings", "ApplySettings"}

SameIdentifier(a, b) ==
    /\ Len(a) = Len(b)
    /\ \A k \in DOMAIN a : FoldChar(a[k]) = FoldChar(b[k])

HasDuplicateIdentifier ==
    \E i, j \in UnitIndex :
        i < j /\ units[i].id # Empty /\ SameIdentifier(units[i].id, units[j].id)

HasUnknownDependency ==
    \E u \in UnitIndex : \E k \in DOMAIN units[u].deps :
        /\ units[u].deps[k] # Empty
        /\ \A i \in UnitIndex : ~SameIdentifier(units[i].id, units[u].deps[k])

C6_ValidationPrecedence ==
    /\ PreProcessFailed =>
          /\ calls = << >>
          /\ EventPositions(0, "InProgress") = {}
          /\ resultCode = IF HasDuplicateIdentifier THEN DuplicateIdentifier
                          ELSE IF HasUnknownDependency THEN MissingDependency
                          ELSE DependencyCycle
          /\ HasDuplicateIdentifier => \A u \in UnitIndex : m_unitInfo[u].deps = << >>
          /\ resultCode = DependencyCycle =>
                \E u \in UnitIndex : ~m_unitInfo[u].preprocessed
    /\ (HasDuplicateIdentifier \/ HasUnknownDependency) => (phase = 0 /\ pc # "Start")

C6_Witness ==
    /\ ReturnedNormally
    /\ PreProcessFailed
    /\ resultCode = DuplicateIdentifier
    /\ HasUnknownDependency
    /\ \E i, j \in UnitIndex : units[i].id # units[j].id /\ SameIdentifier(units[i].id, units[j].id)

\* C7 as stated: after a failed PreProcess no unit carries a failure code other
\* than the set ResultCode, and each unit the dry run could not schedule
\* carries DependencyCycle.
C7_Original ==
    (ReturnedNormally /\ PreProcessFailed) =>
        \A u \in UnitIndex :
            /\ m_unitInfo[u].code \in {S_OK, resultCode}
            /\ (resultCode = DependencyCycle /\ ~m_unitInfo[u].preprocessed) =>
                  m_unitInfo[u].code = DependencyCycle

\* C8 as stated: after a unit's action failed, every unit of a later phase
\* ends with result code DependencyUnsatisfied and state Skipped; an Assert
\* unit whose test is Negative ends AssertionFailed and makes the set
\* ResultCode AssertionFailed.
IntentRank(intent) ==
    CASE intent = "Assert" -> 1 [] intent = "Inform" -> 2 [] intent = "Apply" -> 3

ActionFailed(u) == unitReturn[u] = "false"

LaterPhaseUnits(f) ==
    {v \in UnitIndex : IntentRank(units[v].intent) > IntentRank(units[f].intent)}

C8_Original ==
    ReturnedNormally =>
        \A f \in UnitIndex : ActionFailed(f) =>
            /\ \A v \in LaterPhaseUnits(f) :
                  /\ m_unitInfo[v].code = DependencyUnsatisfied
                  /\ m_unitInfo[v].state = "Skipped"
            /\ units[f].intent = "Assert" => resultCode = AssertionFailed

\* C8 amended: after a unit's action failed, every unit of a later phase is
\* never processed and ends in state Skipped, with result code AssertionFailed
\* when the failed unit is an Assert unit and DependencyUnsatisfied when it is
\* an Inform unit; a failed Assert unit makes the set ResultCode
\* AssertionFailed.
C8_FailurePropagation ==
    ReturnedNormally =>
        \A f \in UnitIndex : ActionFailed(f) =>
            /\ \A v \in LaterPhaseUnits(f) :
                  /\ m_unitInfo[v].code =
                         IF units[f].intent = "Assert" THEN AssertionFailed
                         ELSE DependencyUnsatisfied
                  /\ m_unitInfo[v].state = "Skipped"
                  /\ ~m_unitInfo[v].processed
            /\ units[f].intent = "Assert" => resultCode = AssertionFailed

C8_Witness ==
    /\ ReturnedNormally
    /\ \E g \in UnitsOfIntent("Assert"), h \in UnitsOfIntent("Apply") :
          /\ ActionFailed(g)
          /\ m_unitInfo[g].code = AssertionFailed
          /\ m_unitInfo[h].deps = <<g>>
          /\ m_unitInfo[h].code = AssertionFailed
          /\ m_unitInfo[h].state = "Skipped"
          /\ resultCode = AssertionFailed

\* C9: after Process returns normally the set ResultCode is that of the first
\* failing stage: a validation code when PreProcess failed; else, for the first
\* phase that had a failed action or left a unit of its intent unprocessed,
\* AssertionFailed, DependencyUnsatisfied or SetApplyFailed (by phase) when an
\* action failed and DependencyUnsatisfied when none did; else success.  No
\* unit of a phase after the first failing one is processed.
PhaseFailed(intent) ==
    \E u \in UnitsOfIntent(intent) : ActionFailed(u) \/ ~m_unitInfo[u].processed

PhaseCode(intent, codeForFailures) ==
    IF \E u \in UnitsOfIntent(intent) : ActionFailed(u)
    THEN codeForFailures ELSE DependencyUnsatisfied

CallsOn(u) == {k \in DOMAIN calls : calls[k].unit = u}

C9_SetResultCode ==
    ReturnedNormally =>
        IF PreProcessFailed
        THEN /\ resultCode \in {DuplicateIdentifier, MissingDependency, DependencyCycle}
             /\ \A u \in UnitIndex : ~m_unitInfo[u].processed
        ELSE /\ resultCode =
                    IF PhaseFailed("Assert") THEN PhaseCode("Assert", AssertionFailed)
                    ELSE IF PhaseFailed("Inform")
                    THEN PhaseCode("Inform", DependencyUnsatisfied)
                    ELSE IF PhaseFailed("Apply") THEN PhaseCode("Apply", SetApplyFailed)
                    ELSE S_OK
             /\ \A i, j \in IntentSet :
                    (IntentRank(i) < IntentRank(j) /\ PhaseFailed(i)) =>
                        \A u \in UnitsOfIntent(j) :
                            ~m_unitInfo[u].processed /\ CallsOn(u) = {}

C9_Witness ==
    /\ ReturnedNormally
    /\ ~PreProcessFailed
    /\ resultCode = DependencyUnsatisfied
    /\ \A u \in UnitIndex : ~ActionFailed(u)
    /\ \E u \in UnitsOfIntent("Apply") : m_unitInfo[u].processed

\* C10 as stated: a unit with ShouldApply = false that was selected is never
\* passed to CreateUnitProcessor, emits Skipped only, carries ManuallySkipped
\* with processed = true and counts as a success of the phase; every unit that
\* depends on it is never executed and ends DependencyUnsatisfied and Skipped,
\* and the set ResultCode is DependencyUnsatisfied when nothing else fails in
\* that phase.
Dependents(s) ==
    {t \in UnitIndex : \E k \in DOMAIN m_unitInfo[t].deps : m_unitInfo[t].deps[k] = s}

EventsOf(u) == SelectSeq(events, LAMBDA e : e.unit = u)

ManuallySkippedUnits ==
    {s \in UnitIndex : ~units[s].shouldApply /\ m_unitInfo[s].processed}

SkipItself(s) ==
    /\ CallsOn(s) = {}
    /\ EventsOf(s) = <<[unit |-> s, state |-> "Skipped"]>>
    /\ m_unitInfo[s].code = ManuallySkipped
    /\ unitReturn[s] = "true"
    /\ \A t \in Dependents(s) : ~m_unitInfo[t].processed /\ CallsOn(t) = {}

C10_Original ==
    \A s \in ManuallySkippedUnits :
        /\ SkipItself(s)
        /\ ReturnedNormally =>
              /\ \A t \in Dependents(s) :
                    /\ m_unitInfo[t].code = DependencyUnsatisfied
                    /\ m_unitInfo[t].state = "Skipped"
              /\ (Dependents(s) # {}
                    /\ \A u \in UnitsOfIntent(units[s].intent) : ~ActionFailed(u))
                  => resultCode = DependencyUnsatisfied

\* C10 amended: the same, except that a dependent that is not an Assert unit
\* ends with AssertionFailed (still Skipped, never executed) when the Assert
\* phase failed, and that the set ResultCode is DependencyUnsatisfied when the
\* skipped unit has a dependent and no action of the whole apply failed.
C10_ManualSkip ==
    \A s \in ManuallySkippedUnits :
        /\ SkipItself(s)
        /\ ReturnedNormally =>
              /\ \A t \in Dependents(s) :
                    /\ m_unitInfo[t].code =
                           IF units[t].intent # "Assert" /\ PhaseFailed("Assert")
                           THEN AssertionFailed ELSE DependencyUnsatisfied
                    /\ m_unitInfo[t].state = "Skipped"
              /\ (Dependents(s) # {} /\ \A u \in UnitIndex : ~ActionFailed(u))
                  => resultCode = DependencyUnsatisfied

C10_Witness ==
    /\ ReturnedNormally
    /\ \E s \in ManuallySkippedUnits : \E t \in Dependents(s) :
          /\ units[s].intent = "Apply"
          /\ units[t].intent = "Apply"
          /\ m_unitInfo[t].code = DependencyUnsatisfied
          /\ m_unitInfo[t].state = "Skipped"
          /\ resultCode = DependencyUnsatisfied

\* C11: for any number k >= 2 of units whose non-empty identifiers are equal
\* up to letter case, after Process finishes every one of them carries
\* DuplicateIdentifier and has emitted Completed exactly once (and nothing
\* else), and the set ResultCode is DuplicateIdentifier.
Finished == pc \in {"Done", "Thrown"}

DuplicatesOf(i) ==
    {j \in UnitIndex :
        j # i /\ units[i].id # Empty /\ SameIdentifier(units[i].id, units[j].id)}

C11_Duplicates ==
    Finished =>
        \A i \in UnitIndex : DuplicatesOf(i) # {} =>
            /\ m_unitInfo[i].code = DuplicateIdentifier
            /\ EventsOf(i) = <<[unit |-> i, state |-> "Completed"]>>
            /\ resultCode = DuplicateIdentifier

C11_Witness ==
    /\ Finished
    /\ \A i \in UnitIndex : Cardinality(DuplicatesOf(i)) = NumUnits - 1
    /\ \E i, j \in UnitIndex : units[i].id # units[j].id
    /\ resultCode = DuplicateIdentifier

\* C12: after dependency resolution every entry of every unit's
\* dependency_indices is a valid index of the unit table, and for every unit
\* either its non-empty declared dependencies are resolved, in order and up to
\* letter case, to the units carrying those identifiers, or the unit is marked
\* MissingDependency with its first unresolved identifier, as written, as
\* detail and has emitted Completed exactly once.
ResolutionDone ==
    /\ pc \notin {"PreProcess", "Resolve"}
    /\ ~(PreProcessFailed /\ resultCode = DuplicateIdentifier)

DeclaredDependencies(u) == SelectSeq(units[u].deps, LAMBDA d : d # Empty)

Carried(d) == \E i \in UnitIndex : SameIdentifier(units[i].id, d)

DependenciesResolved(u) ==
    /\ Len(m_unitInfo[u].deps) = Len(DeclaredDependencies(u))
    /\ \A k \in DOMAIN m_unitInfo[u].deps :
          SameIdentifier(units[m_unitInfo[u].deps[k]].id, DeclaredDependencies(u)[k])

FirstUnresolved(u) ==
    LET declared == DeclaredDependencies(u)
        k == CHOOSE j \in DOMAIN declared :
                 /\ ~Carried(declared[j])
                 /\ \A i \in 1..(j - 1) : Carried(declared[i])
    IN  declared[k]

MarkedMissingDependency(u) ==
    /\ \E k \in DOMAIN units[u].deps :
          units[u].deps[k] # Empty /\ ~Carried(units[u].deps[k])
    /\ m_unitInfo[u].code = MissingDependency
    /\ m_unitInfo[u].details = FirstUnresolved(u)
    /\ EventsOf(u) = <<[unit |-> u, state |-> "Completed"]>>

C12_DependencyResolution ==
    ResolutionDone =>
        \A u \in UnitIndex :
            /\ \A k \in DOMAIN m_unitInfo[u].deps : m_unitInfo[u].deps[k] \in UnitIndex
            /\ DependenciesResolved(u) \/ MarkedMissingDependency(u)

C12_Witness ==
    /\ ResolutionDone
    /\ \E u, v \in UnitIndex :
          /\ MarkedMissingDependency(u)
          /\ m_unitInfo[u].details = <<"X">>
          /\ m_unitInfo[v].deps # << >>
          /\ DependenciesResolved(v)
          /\ units[m_unitInfo[v].deps[1]].id # units[v].deps[1]

\* C13 as stated: PreProcess reports DependencyCycle only if the resolved
\* dependency graph contains a directed cycle, whatever the intents.
DependsOn(u) == {m_unitInfo[u].deps[k] : k \in DOMAIN m_unitInfo[u].deps}

RECURSIVE ReachableWithin(_, _)
ReachableWithin(S, n) ==
    IF n = 0 THEN S
    ELSE ReachableWithin(S \cup UNION {DependsOn(x) : x \in S}, n - 1)

HasDependencyCycle ==
    \E u \in UnitIndex : u \in ReachableWithin(DependsOn(u), NumUnits)

C13_Original ==
    (PreProcessFailed /\ resultCode = DependencyCycle) => HasDependencyCycle

\* C14: if PreProcess succeeds every unit has preprocessed = true; and when
\* every unit has ShouldApply = true and no unit's action fails, the real run
\* processes the units in the order in which the dry run marked them
\* preprocessed, each once, and ends with set ResultCode = success.
PreProcessSucceeded == pc \notin {"PreProcess", "Resolve", "CycleCheck"} /\ ~PreProcessFailed

\* The units in the order of their InProgress events.
RealRunOrder ==
    LET started == SelectSeq(events, LAMBDA e : e.unit # 0 /\ e.state = "InProgress")
    IN  [k \in DOMAIN started |-> started[k].unit]

IsPrefix(a, b) == Len(a) <= Len(b) /\ \A k \in DOMAIN a : a[k] = b[k]

IsPermutation(order) ==
    Len(order) = NumUnits /\ {order[k] : k \in DOMAIN order} = UnitIndex

AllSucceedSoFar ==
    \A u \in UnitIndex : units[u].shouldApply /\ ~ActionFailed(u)

C14_RealRunMirrorsDryRun ==
    PreProcessSucceeded =>
        /\ \A u \in UnitIndex : m_unitInfo[u].preprocessed
        /\ IsPermutation(dryRunOrder)
        /\ AllSucceedSoFar =>
              /\ IsPrefix(RealRunOrder, dryRunOrder)
              /\ \A u \in UnitIndex :
                    m_unitInfo[u].processed <=> \E k \in DOMAIN RealRunOrder : RealRunOrder[k] = u
              /\ ReturnedNormally =>
                    /\ RealRunOrder = dryRunOrder
                    /\ resultCode = S_OK

C14_Witness ==
    /\ ReturnedNormally
    /\ PreProcessSucceeded
    /\ AllSucceedSoFar
    /\ RealRunOrder = dryRunOrder
    /\ \E j, k \in DOMAIN dryRunOrder :
          /\ j < k
          /\ dryRunOrder[j] > dryRunOrder[k]
          /\ units[dryRunOrder[j]].intent = units[dryRunOrder[k]].intent

\* C15: along every execution of Process, once a unit's result code is a
\* failure value it is never later replaced by a success value.
C15_FailureCodeKept ==
    [][\A u \in UnitIndex :
          FAILED(m_unitInfo[u].code) => FAILED(m_unitInfo'[u].code)]_vars

\* A unit failed and the run went on to process another unit to success.
C15_Witness ==
    /\ ReturnedNormally
    /\ \E u, v \in UnitIndex :
          /\ ActionFailed(u)
          /\ FAILED(m_unitInfo[u].code)
          /\ unitReturn[v] = "true"
          /\ SUCCEEDED(m_unitInfo[v].code)
          /\ \E i \in EventPositions(u, "Completed"), j \in EventPositions(v, "InProgress") :
                i < j

\* C16: a unit's State never moves backward: it only changes along Unknown,
\* InProgress, Completed, or from Unknown to Skipped; once Completed or
\* Skipped it never changes again, and an InProgress unit never becomes
\* Skipped.
StateRank(state) ==
    CASE state = "Unknown" -> 0
      [] state = "InProgress" -> 1
      [] state = "Completed" -> 2
      [] state = "Skipped" -> 2

StateStep(from, to) ==
    \/ to = from
    \/ /\ from \notin {"Completed", "Skipped"}
       /\ StateRank(from) < StateRank(to)
       /\ to = "Skipped" => from = "Unknown"

C16_StateMonotonic ==
    [][\A u \in UnitIndex : StateStep(m_unitInfo[u].state, m_unitInfo'[u].state)]_vars

C16_Witness ==
    /\ ReturnedNormally
    /\ \E u, v \in UnitIndex :
          /\ EventsOf(u) = <<[unit |-> u, state |-> "InProgress"],
                             [unit |-> u, state |-> "Completed"]>>
          /\ m_unitInfo[u].state = "Completed"
          /\ EventsOf(v) = <<[unit |-> v, state |-> "Skipped"]>>
          /\ m_unitInfo[v].state = "Skipped"

\* C17 as stated: for each unit the sequence of unit-level states emitted is
\* empty, (InProgress), (InProgress, Completed) or (Skipped); Completed is
\* never emitted for a unit that did not emit InProgress first.
StatesEmitted(u) == [k \in DOMAIN EventsOf(u) |-> EventsOf(u)[k].state]

C17_Original ==
    \A u \in UnitIndex :
        StatesEmitted(u) \in
            {<< >>, <<"InProgress">>, <<"InProgress", "Completed">>, <<"Skipped">>}

\* C17 amended: the sequence is empty, (InProgress), (InProgress, Completed),
\* (Skipped), or (Completed) alone; Completed alone is emitted exactly for the
\* units that PreProcess marks DuplicateIdentifier or MissingDependency, which
\* are never processed.
C17_EmittedSequence ==
    \A u \in UnitIndex :
        /\ StatesEmitted(u) \in
               {<< >>, <<"InProgress">>, <<"InProgress", "Completed">>, <<"Skipped">>,
                <<"Completed">>}
        /\ StatesEmitted(u) = <<"Completed">> <=>
               /\ m_unitInfo[u].code \in {DuplicateIdentifier, MissingDependency}
               /\ PreProcessFailed
        /\ StatesEmitted(u) = <<"Completed">> => ~m_unitInfo[u].processed

C17_Witness ==
    /\ Finished
    /\ \E u, v \in UnitIndex :
          /\ StatesEmitted(u) = <<"Completed">>
          /\ m_unitInfo[u].code = MissingDependency
          /\ StatesEmitted(v) = << >>

\* C18: the set-level Completed event is emitted at most once, exactly once
\* by a Process call that returns normally, and no set-level or unit-level
\* event follows it; the set-level InProgress event, when emitted, precedes
\* every unit-level InProgress and Skipped event.
C18_SetCompletedLast ==
    /\ Cardinality(EventPositions(0, "Completed")) <= 1
    /\ \A k \in EventPositions(0, "Completed") : k = Len(events)
    /\ ReturnedNormally => EventPositions(0, "Completed") # {}
    /\ Cardinality(EventPositions(0, "InProgress")) <= 1
    /\ \A k \in DOMAIN events :
          (events[k].unit # 0 /\ events[k].state \in {"InProgress", "Skipped"}) =>
              EmittedBefore(0, "InProgress", k)

C18_Witness ==
    /\ ReturnedNormally
    /\ events[Len(events)] = [unit |-> 0, state |-> "Completed"]
    /\ events[1] = [unit |-> 0, state |-> "InProgress"]
    /\ \E i, j \in DOMAIN events :
          /\ events[i].unit # 0 /\ events[i].state = "InProgress"
          /\ events[j].unit # 0 /\ events[j].state = "Skipped"

\* C19: whenever the scheduler selects a unit in the phase of intent I, no
\* candidate with a smaller input index has intent I and all its dependencies
\* satisfied at that moment, in the real run (dependencies processed with
\* success) and in the dry run (dependencies marked preprocessed).
Candidates == {unitsToProcess[k] : k \in DOMAIN unitsToProcess}

ReadyNow(v) ==
    /\ units[v].intent = PhaseIntent[phase]
    /\ \A d \in DependsOn(v) :
          m_unitInfo[d].processed /\ SUCCEEDED(m_unitInfo[d].code)

MarkedBefore(k) == {dryRunOrder[j] : j \in 1..(k - 1)}

C19_LowestIndexFirst ==
    /\ pc = "Enter" =>
          /\ current \in Candidates
          /\ ReadyNow(current)
          /\ \A v \in Candidates : v < current => ~ReadyNow(v)
    /\ \A k \in DOMAIN dryRunOrder :
          /\ DependsOn(dryRunOrder[k]) \subseteq MarkedBefore(k)
          /\ \A v \in UnitIndex \ MarkedBefore(k) :
                v < dryRunOrder[k] =>
                    ~(/\ units[v].intent = units[dryRunOrder[k]].intent
                      /\ DependsOn(v) \subseteq MarkedBefore(k))

C19_Witness ==
    /\ pc = "Enter"
    /\ \E v, w \in Candidates :
          /\ v < current /\ units[v].intent = PhaseIntent[phase] /\ ~ReadyNow(v)
          /\ w > current /\ ReadyNow(w)

\* C20: ApplySettings is called on a unit only if the unit has intent Apply
\* and ShouldApply = true and its TestSettings call, made before, returned
\* Negative; an Apply unit whose TestSettings returns Positive has
\* PreviouslyInDesiredState = true, gets no ApplySettings call and succeeds;
\* the unit processor of an Assert unit only ever receives TestSettings and
\* that of an Inform unit only ever receives GetSettings.
UnitProcessorOps(u) ==
    {calls[k].op : k \in {j \in CallsOn(u) : calls[j].op # "CreateUnitProcessor"}}

C20_ApplySettingsGuard ==
    /\ \A k \in DOMAIN calls : calls[k].op = "ApplySettings" =>
          LET u == calls[k].unit
          IN  /\ units[u].intent = "Apply"
              /\ units[u].shouldApply
              /\ testResult[u] = "Negative"
              /\ \E j \in 1..(k - 1) : calls[j] = Call("TestSettings", u)
    /\ \A u \in UnitsOfIntent("Apply") : testResult[u] = "Positive" =>
          /\ m_unitInfo[u].previouslyInDesiredState
          /\ "ApplySettings" \notin UnitProcessorOps(u)
          /\ unitReturn[u] = "true"
          /\ SUCCEEDED(m_unitInfo[u].code)
    /\ \A u \in UnitsOfIntent("Assert") : UnitProcessorOps(u) \subseteq {"TestSettings"}
    /\ \A u \in UnitsOfIntent("Inform") : UnitProcessorOps(u) \subseteq {"GetSettings"}
    /\ \A u \in UnitIndex : ~units[u].shouldApply => CallsOn(u) = {}

C20_Witness ==
    /\ ReturnedNormally
    /\ \E u, v \in UnitsOfIntent("Apply"), w \in UnitsOfIntent("Inform") :
          /\ testResult[u] = "Positive"
          /\ m_unitInfo[u].previouslyInDesiredState
          /\ testResult[v] = "Negative"
          /\ UnitProcessorOps(v) = {"TestSettings", "ApplySettings"}
          /\ UnitProcessorOps(w) = {"GetSettings"}

\* C21: every unit that emits InProgress emits Completed exactly once
\* afterwards, as the very next event and before ProcessUnit is left, on every
\* exit path: success, action failure, failure to create the unit processor,
\* an exception of the unit processor, and cancellation detected after
\* InProgress was sent.
InsideProcessUnit(u) == current = u /\ pc \in {"Create", "Dispatch", "Apply"}

C21_CompletedFollowsInProgress ==
    \A u \in UnitIndex : \A i \in EventPositions(u, "InProgress") :
        IF InsideProcessUnit(u)
        THEN i = Len(events)
        ELSE /\ i < Len(events)
             /\ events[i + 1] = [unit |-> u, state |-> "Completed"]
             /\ EventPositions(u, "Completed") = {i + 1}

\* The token was found set by the poll after CreateUnitProcessor.
C21_Witness ==
    /\ pc = "Thrown"
    /\ \E u \in UnitIndex :
          /\ StatesEmitted(u) = <<"InProgress", "Completed">>
          /\ UnitProcessorOps(u) = {}
          /\ calls[Len(calls)] = Call("CreateUnitProcessor", u)
          /\ unitReturn[u] = "none"

\* C22: at every moment at most one unit is in state InProgress, namely the
\* unit inside ProcessUnit, and each unit is handed to ProcessUnit, and to
\* CreateUnitProcessor, at most once: a unit handed to ProcessUnit was never
\* handed to it before.
CreateCalls(u) ==
    {k \in CallsOn(u) : calls[k].op = "CreateUnitProcessor"}

C22_OneUnitAtATime ==
    /\ \A u \in UnitIndex :
          /\ m_unitInfo[u].state = "InProgress" <=> InsideProcessUnit(u)
          /\ Cardinality(CreateCalls(u)) <= 1
          /\ Cardinality(EventPositions(u, "InProgress")) <= 1
    /\ Cardinality({u \in UnitIndex : m_unitInfo[u].state = "InProgress"}) <= 1
    /\ pc = "Enter" =>
          /\ ~m_unitInfo[current].processed
          /\ unitReturn[current] = "none"
          /\ CallsOn(current) = {}
          /\ EventsOf(current) = << >>

C22_Witness ==
    /\ pc = "Dispatch"
    /\ m_unitInfo[current].state = "InProgress"
    /\ \E u, w \in UnitIndex :
          /\ m_unitInfo[u].state = "Completed" /\ Cardinality(CreateCalls(u)) = 1
          /\ m_unitInfo[w].state = "Unknown" /\ w < current

\* C23: for each intent the processing summary has count = the units of that
\* intent, run = those that were selected and passed the entry poll of
\* ProcessUnit (started, or manually skipped), failed = those of them with a
\* failure code; hence failed <= run <= count, a manually skipped unit is in
\* run and in failed, and a unit skipped without being selected is in neither.
SelectedUnits(intent) ==
    {u \in UnitsOfIntent(intent) :
        \/ EventPositions(u, "InProgress") # {}
        \/ u \in ManuallySkippedUnits /\ m_unitInfo[u].code = ManuallySkipped}

NeverSelectedUnits(intent) ==
    {u \in UnitsOfIntent(intent) :
        /\ m_unitInfo[u].state \in {"Skipped", "Unknown"}
        /\ m_unitInfo[u].code \in {S_OK, DependencyUnsatisfied, AssertionFailed}}

C23_ProcessingSummary ==
    \A intent \in IntentSet :
        LET summary == GetProcessingSummaryFor(intent)
        IN  /\ summary.count = Cardinality(UnitsOfIntent(intent))
            /\ summary.run = Cardinality(SelectedUnits(intent))
            /\ summary.failed =
                   Cardinality({u \in SelectedUnits(intent) : FAILED(m_unitInfo[u].code)})
            /\ summary.failed <= summary.run /\ summary.run <= summary.count
            /\ summary.run <= summary.count - Cardinality(NeverSelectedUnits(intent))
            /\ summary.failed >=
                   Cardinality({u \in UnitsOfIntent(intent) : u \in ManuallySkippedUnits})

C23_Witness ==
    /\ ReturnedNormally
    /\ GetProcessingSummaryFor("Apply") =
           [intent |-> "Apply", count |-> 3, run |-> 2, failed |-> 1]
    /\ \E s \in ManuallySkippedUnits : \E t \in Dependents(s) :
          /\ m_unitInfo[t].code = DependencyUnsatisfied
          /\ m_unitInfo[t].state = "Skipped"

\* C24: every Process call logs exactly one per-apply summary: on normal
\* completion after the set-level Completed event, with the set ResultCode;
\* when the cancellation escapes, with source Internal, before the exception
\* is re-raised and without a set-level Completed event.
C24_TelemetryOnce ==
    /\ Len(telemetry) = IF Finished THEN 1 ELSE 0
    /\ ReturnedNormally =>
          /\ telemetry[1].source = "ForApply"
          /\ EventPositions(0, "Completed") = {Len(events)}
    /\ pc = "Summary" => EventPositions(0, "Completed") = {Len(events)}
    /\ pc = "Thrown" =>
          /\ telemetry[1].source = "Internal"
          /\ telemetry[1].hresult = E_CANCELED
          /\ EventPositions(0, "Completed") = {}

C24_Witness ==
    /\ pc = "Thrown"
    /\ Len(telemetry) = 1
    /\ telemetry[1].source = "Internal"
    /\ \E p \in DOMAIN PhaseIntent :
          telemetry[1].summaries[p].run = 2 /\ telemetry[1].summaries[p].failed = 1

\* C25: progress emission failures do not influence the engine.  Whatever
\* calls of Progress throw during a step, the step leaves the same unit table
\* (State, result codes, processed flags), set ResultCode, return value and
\* sequence of events handed to the sink as the step in which none throws, so
\* that two runs on the same input, processor outcomes and cancellation stay
\* in the same engine state step after step; and each unit's State is the
\* state of the last event handed to the sink for it, delivered or not.
View(p) ==
    [info |-> p.info, map |-> p.map, ok |-> p.ok, code |-> p.code, events |-> p.events]

\* The steps that make several calls of Progress.
SameStep(fails) ==
    /\ pc = "PreProcess" =>
          View(AddUnitsFrom(EngineWith(fails), 1)) = View(AddUnitsFrom(Engine, 1))
    /\ pc = "Resolve" =>
          View(ResolveUnitsFrom(EngineWith(fails), 1)) = View(ResolveUnitsFrom(Engine, 1))
    /\ (pc = "Scan"
          /\ ReadyPositions(m_unitInfo, unitsToProcess, PhaseIntent[phase], FALSE) = {}) =>
          View(Classify(EngineWith(fails), unitsToProcess, phase, hasFailure, TRUE)) =
              View(Classify(Engine, unitsToProcess, phase, hasFailure, TRUE))

\* The steps of ProcessUnit, which make one call each.
SameUnitStep(fails) ==
    pc \in {"Enter", "Create", "Dispatch", "Apply"} =>
        \A state \in {"InProgress", "Skipped", "Completed"} :
            View(SendProgress(EngineWith(fails), state, current)) =
                View(SendProgress(Engine, state, current))

C25_ProgressFailuresIgnored ==
    /\ \A fails \in FailurePatterns(MaxEmissionsPerStep) : SameStep(fails)
    /\ \A fails \in FailurePatterns(1) : SameUnitStep(fails)
    /\ \A u \in UnitIndex :
          m_unitInfo[u].state =
              IF EventsOf(u) = << >> THEN "Unknown"
              ELSE StatesEmitted(u)[Len(StatesEmitted(u))]

\* Some call of Progress threw and the apply still ran every unit to success.
C25_Witness ==
    /\ sinkFailed
    /\ ReturnedNormally
    /\ resultCode = S_OK
    /\ \A u \in UnitIndex :
          m_unitInfo[u].state = "Completed" /\ CreateCalls(u) # {}

\* C26: a unit with processed = true has had CreateUnitProcessor attempted
\* for it (the call returned or threw, or is in flight), or has ShouldApply =
\* false and was marked ManuallySkipped; processed is true also when
\* CreateUnitProcessor failed; and a unit with processed = false has never had
\* an operation of the external processor attempted for it.
CreateInFlight(u) == current = u /\ pc = "Create"

C26_ProcessedImpliesAttempt ==
    \A u \in UnitIndex :
        /\ m_unitInfo[u].processed =>
              IF units[u].shouldApply
              THEN CreateCalls(u) # {} \/ CreateInFlight(u)
              ELSE m_unitInfo[u].code = ManuallySkipped /\ CallsOn(u) = {}
        /\ ~m_unitInfo[u].processed => CallsOn(u) = {} /\ ~CreateInFlight(u)

C26_Witness ==
    \E u, v \in UnitIndex :
        /\ m_unitInfo[u].processed
        /\ m_unitInfo[u].code = E_THROWN
        /\ CallsOn(u) = CreateCalls(u)
        /\ unitReturn[u] = "false"
        /\ m_unitInfo[v].processed
        /\ ~units[v].shouldApply

\* C27: no unit is ever marked with E_FAIL, the errorForOtherIntents value of
\* the Apply phase: whenever the Apply phase runs, in the dry run or in the
\* real run, every remaining candidate has intent Apply.
InApplyPhase == phase = Len(PhaseIntent)

C27_NoOtherIntentInApplyPhase ==
    /\ \A u \in UnitIndex : m_unitInfo[u].code # E_FAIL
    /\ InApplyPhase =>
          /\ \A k \in DOMAIN unitsToProcess : units[unitsToProcess[k]].intent = "Apply"
          /\ \A u \in UnitIndex :
                units[u].intent # "Apply" => m_unitInfo[u].processed
    /\ (PreProcessFailed /\ resultCode = DependencyCycle) =>
          \A u \in UnitIndex :
              (units[u].intent # "Apply" /\ ~m_unitInfo[u].preprocessed) =>
                  \E v \in UnitIndex :
                      /\ ~m_unitInfo[v].preprocessed
                      /\ IntentRank(units[v].intent) <= IntentRank(units[u].intent)
                      /\ m_unitInfo[v].code = DependencyUnsatisfied

\* The Apply phase failed with a unit of its intent left in the list.
C27_Witness ==
    /\ ReturnedNormally
    /\ InApplyPhase
    /\ resultCode = SetApplyFailed
    /\ \E u \in UnitsOfIntent("Apply"), a \in UnitsOfIntent("Assert") :
          /\ m_unitInfo[u].code = DependencyUnsatisfied
          /\ m_unitInfo[a].processed

\* C28: the cycle-detection dry run emits no progress event and leaves every
\* unit's State and processed flag unchanged; when it succeeds it changes
\* nothing but the preprocessed flags: the per-unit result codes and the set
\* ResultCode are unchanged.
DryRunStep == pc = "CycleCheck" /\ pc' # "CycleCheck"

DryRunSucceeded == pc' = "Start"

C28_DryRunFrame ==
    [][DryRunStep =>
          /\ events' = events
          /\ calls' = calls
          /\ telemetry' = telemetry
          /\ \A u \in UnitIndex :
                /\ m_unitInfo'[u].state = m_unitInfo[u].state
                /\ m_unitInfo'[u].processed = m_unitInfo[u].processed
          /\ DryRunSucceeded =>
                /\ resultCode' = resultCode
                /\ \A u \in UnitIndex :
                      /\ m_unitInfo'[u].code = m_unitInfo[u].code
                      /\ m_unitInfo'[u] =
                            [m_unitInfo[u] EXCEPT !.preprocessed = TRUE]
                /\ m_idToUnitInfoIndex' = m_idToUnitInfoIndex
                /\ units' = units]_vars

\* A successful dry run that took the units out of input order.
C28_Witness ==
    /\ pc = "Start"
    /\ Len(dryRunOrder) = Len(units)
    /\ Len(units) >= 2
    /\ dryRunOrder # AllUnits
    /\ \A u \in UnitIndex : m_unitInfo[u].preprocessed /\ ~m_unitInfo[u].processed
    /\ events = <<>>

\* C29: when the phase for intent I returns success, the candidate list holds
\* exactly the units the scheduler has not processed yet, none of them of
\* intent I, in their input order; the list never holds a unit twice and
\* never regains a removed unit. In the dry run the scheduler's processing of
\* a unit is MarkPreprocessed, in the real run ProcessUnit.
ElementsOf(seq) == {seq[k] : k \in DOMAIN seq}

InInputOrder(seq) ==
    \A j, k \in DOMAIN seq : j < k => seq[j] < seq[k]

\* The units whose flag in done is false, in input order.
UnitsNot(done) == SelectSeq(AllUnits, LAMBDA u : ~done[u])

\* The step on which the phase of the real run returns success.
PhaseReturnsSuccess ==
    /\ pc = "Scan"
    /\ \/ pc' = "Scan" /\ phase' = phase + 1
       \/ pc' = "Finish" /\ resultCode' = S_OK

\* The dry run up to the start of phase ph: its tables, its candidate list
\* and whether every earlier phase returned success.
RECURSIVE DryRunUpTo(_)
DryRunUpTo(ph) ==
    IF ph = 1
    THEN [p |-> Engine, candidates |-> AllUnits, ok |-> TRUE]
    ELSE LET e == DryRunUpTo(ph - 1)
             r == DryRunScan(e.p, e.candidates, PhaseIntent[ph - 1])
             c == Classify(r.p, r.candidates, ph - 1, FALSE, FALSE)
         IN  [p |-> c, candidates |-> r.candidates, ok |-> e.ok /\ c.ok]

DryRunCandidatesExact ==
    pc = "CycleCheck" =>
        \A ph \in 1..Len(PhaseIntent) :
            LET e == DryRunUpTo(ph + 1)
            IN  /\ InInputOrder(e.candidates)
                /\ ElementsOf(e.candidates) \subseteq ElementsOf(DryRunUpTo(ph).candidates)
                /\ e.ok =>
                      /\ e.candidates =
                            UnitsNot([u \in UnitIndex |-> e.p.info[u].preprocessed])
                      /\ \A k \in DOMAIN e.candidates :
                            units[e.candidates[k]].intent # PhaseIntent[ph]

C29_CandidateList ==
    [][/\ DryRunCandidatesExact
       /\ InInputOrder(unitsToProcess')
       /\ pc # "Start" => ElementsOf(unitsToProcess') \subseteq ElementsOf(unitsToProcess)
       /\ PhaseReturnsSuccess =>
             /\ unitsToProcess' =
                   UnitsNot([u \in UnitIndex |-> m_unitInfo'[u].processed])
             /\ \A k \in DOMAIN unitsToProcess' :
                   units[unitsToProcess'[k]].intent # PhaseIntent[phase]]_vars

\* The Assert phase returned success after running a unit that was not the
\* head of the list, leaving units of two later intents.
C29_Witness ==
    /\ pc = "Scan"
    /\ phase = 2
    /\ Len(unitsToProcess) = 2
    /\ unitsToProcess[1] = 1
    /\ units[1].intent = "Apply"
    /\ units[unitsToProcess[2]].intent = "Inform"
    /\ \E u \in UnitsOfIntent("Assert") : m_unitInfo[u].processed

\* C30: a failed unit does not stop its own phase. After a unit's action
\* returned failure in the phase of intent I, the scan still hands every
\* unit of intent I whose dependencies have all processed successfully to
\* ProcessUnit; when the phase ends, the units it leaves unexecuted and marks
\* are only the units of intent I with an unsatisfied dependency and the
\* units of other intents.
PhaseEndsWithFailure == pc = "Scan" /\ hasFailure /\ pc' = "Finish"

C30_FailureDoesNotStopPhase ==
    [][/\ (pc = "Scan" /\ hasFailure /\ cancelled' = cancelled
            /\ \E v \in Candidates : ReadyNow(v)) =>
             /\ pc' = "Enter"
             /\ phase' = phase
             /\ current' \in Candidates
             /\ ReadyNow(current')
       /\ PhaseEndsWithFailure =>
             \A u \in UnitIndex :
                 IF u \in Candidates
                 THEN /\ unitReturn[u] = "none"
                      /\ ~m_unitInfo[u].processed
                      /\ m_unitInfo'[u].state = "Skipped"
                      /\ IF units[u].intent = PhaseIntent[phase]
                         THEN /\ \E d \in DependsOn(u) :
                                    ~(m_unitInfo[d].processed /\ SUCCEEDED(m_unitInfo[d].code))
                              /\ m_unitInfo'[u].code = DependencyUnsatisfied
                         ELSE m_unitInfo'[u].code = ErrorForOtherIntents[phase]
                 ELSE /\ m_unitInfo[u].processed
                      /\ unitReturn[u] # "none"
                      /\ m_unitInfo'[u] = m_unitInfo[u]]_vars

\* The first unit returned failure, the second depends on it and stays in
\* the list, and the scan hands the third, of the same intent, to ProcessUnit.
C30_Witness ==
    /\ pc = "Enter"
    /\ hasFailure
    /\ Len(units) = 3
    /\ current = 3
    /\ unitReturn[1] = "false"
    /\ Candidates = {2, 3}
    /\ ~ReadyNow(2)
    /\ \A u \in UnitIndex : units[u].intent = PhaseIntent[phase]

\* C31: if Process returns normally with set ResultCode = success, every unit
\* has processed = true and is either in state Completed with a success
\* result code, or in state Skipped with result code ManuallySkipped and no
\* unit depending on it; no unit is left Unknown or marked
\* DependencyUnsatisfied.
C31_SuccessMeansAllProcessed ==
    (ReturnedNormally /\ resultCode = S_OK) =>
        \A u \in UnitIndex :
            /\ m_unitInfo[u].processed
            /\ \/ /\ m_unitInfo[u].state = "Completed"
                  /\ SUCCEEDED(m_unitInfo[u].code)
               \/ /\ m_unitInfo[u].state = "Skipped"
                  /\ m_unitInfo[u].code = ManuallySkipped
                  /\ Dependents(u) = {}
            /\ m_unitInfo[u].state # "Unknown"
            /\ m_unitInfo[u].code # DependencyUnsatisfied

\* A successful apply of three units of three intents, one of them skipped
\* by hand and one depending on another.
C31_Witness ==
    /\ ReturnedNormally
    /\ resultCode = S_OK
    /\ Len(units) = 3
    /\ {units[u].intent : u \in UnitIndex} = IntentSet
    /\ \E u \in UnitIndex : m_unitInfo[u].code = ManuallySkipped
    /\ \E u \in UnitIndex : Dependents(u) # {}

\* C32: whenever ProcessUnit returns failure for a unit, the unit carries a
\* failure result code afterwards, for every result the external unit
\* processor may return; consequently no unit is executed after one of its
\* dependencies returned failure, and a set ResultCode of AssertionFailed or
\* SetApplyFailed implies at least one unit with a failure result code.
FailureCarriesCode ==
    \A u \in UnitIndex : unitReturn[u] = "false" => FAILED(m_unitInfo[u].code)

NoRunAfterFailedDependency ==
    \A u \in UnitIndex : \A d \in DependsOn(u) :
        unitReturn[d] = "false" => ~m_unitInfo[u].processed /\ CallsOn(u) = {}

FailedSetHasFailedUnit ==
    resultCode \in {AssertionFailed, SetApplyFailed} =>
        \E u \in UnitIndex : FAILED(m_unitInfo[u].code)

C32_Original ==
    /\ FailureCarriesCode
    /\ NoRunAfterFailedDependency
    /\ FailedSetHasFailedUnit

\* C33: provided each external call returns or throws, Process terminates:
\* it eventually either emits the set-level Completed event and returns, or
\* re-raises an escaping exception; and the scheduling loop of each phase
\* performs at most one action per remaining candidate, each action taking
\* its unit out of the list.
SetCompletedEmitted ==
    \E k \in DOMAIN events : events[k] = [unit |-> 0, state |-> "Completed"]

ActionsReturned == {u \in UnitIndex : unitReturn[u] # "none"}

ScanHandsOver == pc = "Scan" /\ pc' = "Enter"

ActionReturns == pc \in {"Enter", "Create", "Dispatch", "Apply"} /\ pc' = "Scan"

C33_ProcessTerminates ==
    /\ <>Finished
    /\ [](/\ ReturnedNormally => SetCompletedEmitted
          /\ pc = "Thrown" => ~SetCompletedEmitted
          /\ Len(dryRunOrder) <= Len(units)
          /\ \A j, k \in DOMAIN dryRunOrder :
                dryRunOrder[j] = dryRunOrder[k] => j = k
          /\ pc = "Scan" =>
                Cardinality(ActionsReturned) + Len(unitsToProcess) = Len(units))
    /\ [][/\ ScanHandsOver =>
                /\ current' \in Candidates
                /\ unitReturn[current'] = "none"
                /\ ~m_unitInfo[current'].processed
          /\ ActionReturns =>
                /\ current \in Candidates
                /\ ElementsOf(unitsToProcess') = Candidates \ {current}
                /\ Len(unitsToProcess') = Len(unitsToProcess) - 1]_vars

\* Process returned after the set-level Completed event, every unit having
\* had its one action.
C33_Witness ==
    /\ ReturnedNormally
    /\ SetCompletedEmitted
    /\ ActionsReturned = UnitIndex
    /\ unitsToProcess = <<>>
    /\ Len(units) = 3

====
